---- MODULE Spec2Model ----
(***************************************************************************)
(* Model of tools/checker_doors.py: check_door_accessibility(model,        *)
(* min_width_mm).  The function is modelled as a program with three steps  *)
(* (prologue, one loop iteration per door, summary and return) so that the *)
(* contents of `results` and of the two counters can be observed while the *)
(* scan runs and after it returns.                                         *)
(*                                                                         *)
(* Python values are records tagged with their type.  Numbers are          *)
(* integer-valued ints and floats; the tag decides how they are printed.   *)
(***************************************************************************)
EXTENDS Integers, Sequences, FiniteSets, TLC

(***************************************************************************)
(* Bounds                                                                  *)
(***************************************************************************)
MaxDoors == 2

(***************************************************************************)
(* Python values                                                           *)
(***************************************************************************)
None == [type |-> "NoneType"]
\* marker of an attribute the object does not have at all
Missing == [type |-> "<missing>"]
\* marker of an AttributeError raised by an attribute access
AttributeError == [type |-> "AttributeError"]
StrVal(s) == [type |-> "str", s |-> s]
IntVal(n) == [type |-> "int", n |-> n]
FloatVal(n) == [type |-> "float", n |-> n]

Digit(d) ==
  CASE d = 0 -> "0" [] d = 1 -> "1" [] d = 2 -> "2" [] d = 3 -> "3"
    [] d = 4 -> "4" [] d = 5 -> "5" [] d = 6 -> "6" [] d = 7 -> "7"
    [] d = 8 -> "8" [] d = 9 -> "9"

RECURSIVE NatToStr(_)
NatToStr(n) == IF n < 10 THEN Digit(n) ELSE NatToStr(n \div 10) \o Digit(n % 10)

IntToStr(n) == IF n < 0 THEN "-" \o NatToStr(0 - n) ELSE NatToStr(n)

\* str(v) and f"{v}": an int prints its digits, an integer-valued float
\* prints its digits followed by ".0", None prints "None".
PyStr(v) ==
  CASE v.type = "int" -> IntToStr(v.n)
    [] v.type = "float" -> IntToStr(v.n) \o ".0"
    [] v.type = "str" -> v.s
    [] v.type = "NoneType" -> "None"

\* truth value of an object, as `or` tests it
Truthy(v) ==
  CASE v.type = "NoneType" -> FALSE
    [] v.type = "str" -> v.s # ""
    [] v.type \in {"int", "float"} -> v.n # 0

\* a >= b on numbers (int and float compare by value)
Ge(a, b) == a.n >= b.n

(***************************************************************************)
(* Attribute access                                                        *)
(***************************************************************************)
HasAttr(obj, name) == obj[name] # Missing

\* obj.name without a default: AttributeError when the attribute is missing
GetAttrNoDefault(obj, name, default) ==
  IF HasAttr(obj, name) THEN obj[name] ELSE AttributeError

\* getattr(obj, name, default)
GetAttr(obj, name, default) ==
  IF HasAttr(obj, name) THEN obj[name] ELSE default

(***************************************************************************)
(* Inputs                                                                  *)
(***************************************************************************)
\* the entity id of the k-th door of a model (door.id()); distinct per door
StepId(k) == 18 + 7 * k

GlobalIds == {Missing, StrVal("2O2Fr$t4X7Zf8NOew3FLOH")}
Names == {Missing, StrVal(""), StrVal("Entrance")}
Widths == {Missing, None, IntVal(0), FloatVal(900)}
MinWidths == {FloatVal(900), IntVal(0)}

DoorAttrs == [GlobalId : GlobalIds, Name : Names, OverallWidth : Widths]

MkDoor(a, k) ==
  [GlobalId |-> a.GlobalId, Name |-> a.Name,
   OverallWidth |-> a.OverallWidth, id |-> StepId(k)]

DoorLists ==
  UNION { { [k \in 1..n |-> MkDoor(f[k], k)] : f \in [1..n -> DoorAttrs] }
          : n \in 0..MaxDoors }

\* a model either has by_type, returning its doors, or lacks it
Models ==
  {[by_type |-> Missing, doors |-> <<>>]}
    \cup {[by_type |-> StrVal("method"), doors |-> ds] : ds \in DoorLists}

NoReturn == <<[element_type |-> "<no call returned yet>"]>>

VARIABLES
  model,                \* the model passed to the function
  min_width_mm,         \* the threshold passed to the function
  pc,                   \* "idle", "loop", "done" or "raised"
  doors,                \* local: the list by_type returned
  idx,                  \* local: position of the for loop in doors
  results,              \* local, then the returned list
  compliant_count,
  non_compliant_count,
  returned              \* what the previous call returned, kept by the caller

vars == <<model, min_width_mm, pc, doors, idx, results,
          compliant_count, non_compliant_count, returned>>

(***************************************************************************)
(* The per-door computation (the body of the for loop)                     *)
(***************************************************************************)
\* model.by_type("IfcDoor") without the hasattr guard
ByTypeUnguarded(m) ==
  IF HasAttr(m, "by_type")
  THEN [raised |-> FALSE, value |-> m.doors]
  ELSE [raised |-> TRUE, value |-> <<>>]

\* doors = model.by_type("IfcDoor") if hasattr(model, "by_type") else []
ByType(m) ==
  IF HasAttr(m, "by_type")
  THEN [raised |-> FALSE, value |-> m.doors]
  ELSE [raised |-> FALSE, value |-> <<>>]

Width(door) == GetAttr(door, "OverallWidth", None)

HasWidth(width) == width # None

\* the comparison written with > instead of >=
PassesStrict(width, min) == HasWidth(width) /\ ~ Ge(min, width)

\* has_width and width >= min_width_mm
Passes(width, min) == HasWidth(width) /\ Ge(width, min)

Status(width, min) == IF Passes(width, min) THEN "pass" ELSE "fail"

MissingWidthComment == "Door width is not specified (OverallWidth is missing)"

BelowComment(width, min) ==
  "Door width " \o PyStr(width) \o " mm is below required minimum "
    \o PyStr(min) \o " mm"

\* the else branch without the inner `if not has_width`
CommentNoDistinction(width, min) ==
  IF Passes(width, min) THEN None ELSE StrVal(BelowComment(width, min))

Comment(width, min) ==
  IF Passes(width, min) THEN None
  ELSE IF ~ HasWidth(width) THEN StrVal(MissingWidthComment)
  ELSE StrVal(BelowComment(width, min))

\* getattr(door, "Name", None) or f"Door #{door.id()}"
ElementName(door) ==
  LET name == GetAttr(door, "Name", None)
  IN  IF Truthy(name) THEN name.s ELSE "Door #" \o IntToStr(door.id)

ActualValue(width) == IF HasWidth(width) THEN PyStr(width) ELSE "Unknown width"

RequiredValue(min) == ">= " \o PyStr(min) \o " mm"

DoorResult(door, min) ==
  [element_id |-> GetAttr(door, "GlobalId", None),
   element_type |-> "IfcDoor",
   element_name |-> ElementName(door),
   element_name_long |-> None,
   check_status |-> Status(Width(door), min),
   actual_value |-> ActualValue(Width(door)),
   required_value |-> RequiredValue(min),
   comment |-> Comment(Width(door), min),
   log |-> None]

\* an attribute read of the loop body raised
DoorRaises(door) ==
  \E a \in {"OverallWidth", "GlobalId", "Name"} :
     GetAttr(door, a, None) = AttributeError

(***************************************************************************)
(* The summary                                                             *)
(***************************************************************************)
\* the branches tested in the order non_compliant_count == 0, total == 0
SummaryStatusSwapped(total, nc) ==
  IF nc = 0 THEN "pass" ELSE IF total = 0 THEN "warning" ELSE "fail"

SummaryStatus(total, nc) ==
  IF total = 0 THEN "warning" ELSE IF nc = 0 THEN "pass" ELSE "fail"

NoDoorsComment == "Model contains no IfcDoor elements"

AllPassComment(total) ==
  "All " \o IntToStr(total) \o " doors meet or exceed the minimum width"

SomeFailComment(total, nc, min) ==
  IntToStr(nc) \o " of " \o IntToStr(total) \o " doors are below the "
    \o "required minimum width of " \o PyStr(min) \o " mm or have no width set"

SummaryComment(total, nc, min) ==
  IF total = 0 THEN NoDoorsComment
  ELSE IF nc = 0 THEN AllPassComment(total)
  ELSE SomeFailComment(total, nc, min)

CompliantText(compliant, total) ==
  IntToStr(compliant) \o " / " \o IntToStr(total) \o " doors compliant"

\* the summary reporting the non-compliant count as the compliant one
SummaryResultWrongCount(compliant, total, nc, min) ==
  [element_id |-> None,
   element_type |-> "Summary",
   element_name |-> "Door Accessibility Check",
   element_name_long |-> None,
   check_status |-> SummaryStatus(total, nc),
   actual_value |-> CompliantText(nc, total),
   required_value |-> "All doors width >= " \o PyStr(min) \o " mm",
   comment |-> StrVal(SummaryComment(total, nc, min)),
   log |-> None]

SummaryResult(compliant, total, nc, min) ==
  [element_id |-> None,
   element_type |-> "Summary",
   element_name |-> "Door Accessibility Check",
   element_name_long |-> None,
   check_status |-> SummaryStatus(total, nc),
   actual_value |-> CompliantText(compliant, total),
   required_value |-> "All doors width >= " \o PyStr(min) \o " mm",
   comment |-> StrVal(SummaryComment(total, nc, min)),
   log |-> None]

(***************************************************************************)
(* The program                                                             *)
(***************************************************************************)
Init ==
  /\ model \in Models
  /\ min_width_mm \in MinWidths
  /\ pc = "idle"
  /\ doors = <<>>
  /\ idx = 1
  /\ results = <<>>
  /\ compliant_count = 0
  /\ non_compliant_count = 0
  /\ returned = NoReturn

\* entry of check_door_accessibility up to the for loop; the caller keeps
\* the list an earlier call returned
Call ==
  /\ pc \in {"idle", "done"}
  /\ returned' = IF pc = "done" THEN results ELSE returned
  /\ results' = <<>>
  /\ compliant_count' = 0
  /\ non_compliant_count' = 0
  /\ idx' = 1
  /\ IF ByType(model).raised
     THEN pc' = "raised" /\ doors' = <<>>
     ELSE pc' = "loop" /\ doors' = ByType(model).value
  /\ UNCHANGED <<model, min_width_mm>>

\* the iteration inserting its record at the front of results
ProcessDoorPrepend ==
  /\ pc = "loop"
  /\ idx <= Len(doors)
  /\ LET door == doors[idx]
     IN  IF DoorRaises(door)
         THEN /\ pc' = "raised"
              /\ UNCHANGED <<idx, results, compliant_count, non_compliant_count>>
         ELSE /\ pc' = "loop"
              /\ idx' = idx + 1
              /\ results' = <<DoorResult(door, min_width_mm)>> \o results
              /\ IF Passes(Width(door), min_width_mm)
                 THEN /\ compliant_count' = compliant_count + 1
                      /\ UNCHANGED non_compliant_count
                 ELSE /\ non_compliant_count' = non_compliant_count + 1
                      /\ UNCHANGED compliant_count
  /\ UNCHANGED <<model, min_width_mm, doors, returned>>

\* the iteration storing the synthesized name back into the model's door
ProcessDoorWritesName ==
  /\ pc = "loop"
  /\ idx <= Len(doors)
  /\ LET door == doors[idx]
     IN  IF DoorRaises(door)
         THEN /\ pc' = "raised"
              /\ UNCHANGED <<idx, results, compliant_count, non_compliant_count,
                             model>>
         ELSE /\ pc' = "loop"
              /\ idx' = idx + 1
              /\ results' = Append(results, DoorResult(door, min_width_mm))
              /\ model' = [model EXCEPT
                             !.doors[idx].Name = StrVal(ElementName(door))]
              /\ IF Passes(Width(door), min_width_mm)
                 THEN /\ compliant_count' = compliant_count + 1
                      /\ UNCHANGED non_compliant_count
                 ELSE /\ non_compliant_count' = non_compliant_count + 1
                      /\ UNCHANGED compliant_count
  /\ UNCHANGED <<min_width_mm, doors, returned>>

\* one iteration of `for door in doors`
ProcessDoor ==
  /\ pc = "loop"
  /\ idx <= Len(doors)
  /\ LET door == doors[idx]
     IN  IF DoorRaises(door)
         THEN /\ pc' = "raised"
              /\ UNCHANGED <<idx, results, compliant_count, non_compliant_count>>
         ELSE /\ pc' = "loop"
              /\ idx' = idx + 1
              /\ results' = Append(results, DoorResult(door, min_width_mm))
              /\ IF Passes(Width(door), min_width_mm)
                 THEN /\ compliant_count' = compliant_count + 1
                      /\ UNCHANGED non_compliant_count
                 ELSE /\ non_compliant_count' = non_compliant_count + 1
                      /\ UNCHANGED compliant_count
  /\ UNCHANGED <<model, min_width_mm, doors, returned>>

\* the summary step returning early when there are no doors
SummarizeSkipEmpty ==
  /\ pc = "loop"
  /\ idx > Len(doors)
  /\ results' = IF Len(doors) = 0 THEN results
                ELSE Append(results,
                       SummaryResult(compliant_count, Len(doors),
                                     non_compliant_count, min_width_mm))
  /\ pc' = "done"
  /\ UNCHANGED <<model, min_width_mm, doors, idx,
                 compliant_count, non_compliant_count, returned>>

\* the summary step inserting the summary at the front of results
SummarizeFirst ==
  /\ pc = "loop"
  /\ idx > Len(doors)
  /\ results' = <<SummaryResult(compliant_count, Len(doors),
                                non_compliant_count, min_width_mm)>> \o results
  /\ pc' = "done"
  /\ UNCHANGED <<model, min_width_mm, doors, idx,
                 compliant_count, non_compliant_count, returned>>

\* after the loop: the summary is appended and the list returned
Summarize ==
  /\ pc = "loop"
  /\ idx > Len(doors)
  /\ results' = Append(results,
                  SummaryResult(compliant_count, Len(doors),
                                non_compliant_count, min_width_mm))
  /\ pc' = "done"
  /\ UNCHANGED <<model, min_width_mm, doors, idx,
                 compliant_count, non_compliant_count, returned>>

Next == Call \/ ProcessDoor \/ Summarize

Spec == Init /\ [][Next]_vars

TypeOK ==
  /\ model \in Models
  /\ min_width_mm \in MinWidths
  /\ pc \in {"idle", "loop", "done", "raised"}
  /\ idx \in 1..(Len(doors) + 1)
  /\ compliant_count \in 0..Len(doors)
  /\ non_compliant_count \in 0..Len(doors)

(***************************************************************************)
(* Vocabulary of the properties, stated on the inputs and on the output    *)
(***************************************************************************)
\* the per-door records produced so far (the summary, once appended, is last)
NumDoorRecords == IF pc = "done" THEN Len(results) - 1 ELSE Len(results)

DoorRecordIdx == 1..NumDoorRecords

Summary == results[Len(results)]

\* the door's OverallWidth is there and holds a number
WidthPresent(d) == d.OverallWidth \notin {Missing, None}

\* the door is wide enough
WideEnough(d) == WidthPresent(d) /\ d.OverallWidth.n >= min_width_mm.n

NamePresent(d) == d.Name \notin {Missing, None, StrVal("")}

PassRecords == {i \in DoorRecordIdx : results[i].check_status = "pass"}

FailRecords == {i \in DoorRecordIdx : results[i].check_status = "fail"}

NonCompliantDoors == {i \in 1..Len(doors) : ~ WideEnough(doors[i])}

(***************************************************************************)
(* C1: the returned list has one record per enumerated door plus the       *)
(* summary, whatever the doors are.                                        *)
(***************************************************************************)
C1_OutputLength == pc = "done" => Len(results) = Len(doors) + 1

C1_Witness ==
  /\ pc = "done"
  /\ Len(doors) >= 2
  /\ results[1].check_status = "pass"
  /\ results[2].actual_value = "Unknown width"
  /\ Len(results) = Len(doors) + 1

(***************************************************************************)
(* C2: a returned list holds exactly one "Summary" record, it is the last  *)
(* element, and every record before it is an "IfcDoor" record.             *)
(***************************************************************************)
C2_SummaryLast ==
  pc = "done" =>
    /\ Len(results) >= 1
    /\ results[Len(results)].element_type = "Summary"
    /\ \A i \in 1..(Len(results) - 1) : results[i].element_type = "IfcDoor"
    /\ Cardinality({i \in 1..Len(results) :
                      results[i].element_type = "Summary"}) = 1

C2_Witness ==
  /\ pc = "done"
  /\ Len(results) >= 3
  /\ results[Len(results)].element_type = "Summary"
  /\ results[1].element_type = "IfcDoor"

(***************************************************************************)
(* C3: a door's record is "pass" exactly when its OverallWidth is present  *)
(* and >= min_width_mm (equality passes); otherwise it is "fail".          *)
(***************************************************************************)
C3_Classification ==
  pc \in {"loop", "done"} =>
    \A i \in DoorRecordIdx :
      /\ results[i].check_status = "pass" <=> WideEnough(doors[i])
      /\ results[i].check_status = "fail" <=> ~ WideEnough(doors[i])

C3_Witness ==
  /\ pc = "done"
  /\ min_width_mm = FloatVal(900)
  /\ \E i, j \in DoorRecordIdx :
       /\ doors[i].OverallWidth = FloatVal(900)
       /\ results[i].check_status = "pass"
       /\ doors[j].OverallWidth = IntVal(0)
       /\ results[j].check_status = "fail"

(***************************************************************************)
(* C4: the summary is "fail" iff some door is non-compliant, "pass" iff    *)
(* there are doors and none is non-compliant, "warning" iff there are no   *)
(* doors; it is one of the three.                                          *)
(***************************************************************************)
C4_SummaryStatus ==
  pc = "done" =>
    /\ Summary.check_status \in {"pass", "fail", "warning"}
    /\ Summary.check_status = "fail" <=> Cardinality(NonCompliantDoors) > 0
    /\ Summary.check_status = "pass" <=>
         (Len(doors) > 0 /\ Cardinality(NonCompliantDoors) = 0)
    /\ Summary.check_status = "warning" <=> Len(doors) = 0
    /\ non_compliant_count = Cardinality(NonCompliantDoors)

C4_Witness ==
  /\ pc = "done"
  /\ Len(doors) = 2
  /\ Summary.check_status = "pass"
  /\ Summary.comment = StrVal("All 2 doors meet or exceed the minimum width")

(***************************************************************************)
(* C5: a model without by_type raises nothing and yields the single        *)
(* "warning" summary, the same list a model with by_type and no doors      *)
(* yields.                                                                 *)
(***************************************************************************)
C5_NoByType ==
  /\ model.by_type = Missing => pc # "raised"
  /\ (pc = "done" /\ model.by_type = Missing) =>
       /\ Len(results) = 1
       /\ results[1].element_type = "Summary"
       /\ results[1].check_status = "warning"
       /\ results[1].comment = StrVal("Model contains no IfcDoor elements")
       /\ results[1].actual_value = "0 / 0 doors compliant"
       /\ results = <<SummaryResult(0, 0, 0, min_width_mm)>>
  /\ (pc = "done" /\ model.by_type # Missing /\ model.doors = <<>>) =>
       results = <<SummaryResult(0, 0, 0, min_width_mm)>>

C5_Witness ==
  /\ pc = "done"
  /\ model.by_type = Missing
  /\ results[1].check_status = "warning"

(***************************************************************************)
(* C6: a door's comment is None exactly when it passes, the missing-width  *)
(* text exactly when OverallWidth is absent, and the below-minimum text    *)
(* with the width and the threshold exactly when the width is present and  *)
(* < min_width_mm; actual_value is "Unknown width" exactly when the width  *)
(* is absent.                                                              *)
(***************************************************************************)
C6_Comment ==
  pc \in {"loop", "done"} =>
    \A i \in DoorRecordIdx :
      LET r == results[i]
          d == doors[i]
          below == "Door width " \o PyStr(d.OverallWidth)
                     \o " mm is below required minimum "
                     \o PyStr(min_width_mm) \o " mm"
      IN  /\ r.comment = None <=> r.check_status = "pass"
          /\ r.comment =
               StrVal("Door width is not specified (OverallWidth is missing)")
               <=> ~ WidthPresent(d)
          /\ (WidthPresent(d) /\ d.OverallWidth.n < min_width_mm.n)
               => r.comment = StrVal(below)
          /\ (r.comment \notin
                {None,
                 StrVal("Door width is not specified (OverallWidth is missing)")})
               => /\ WidthPresent(d)
                  /\ d.OverallWidth.n < min_width_mm.n
                  /\ r.comment = StrVal(below)
          /\ r.actual_value = "Unknown width" <=> ~ WidthPresent(d)
          /\ (d.OverallWidth = IntVal(0) /\ min_width_mm = FloatVal(900))
               => /\ r.comment = StrVal(
                       "Door width 0 mm is below required minimum 900.0 mm")
                  /\ r.actual_value = "0"

C6_Witness ==
  /\ pc = "done"
  /\ \E i, j \in DoorRecordIdx :
       /\ ~ WidthPresent(doors[i])
       /\ results[i].comment =
            StrVal("Door width is not specified (OverallWidth is missing)")
       /\ results[i].actual_value = "Unknown width"
       /\ results[j].comment =
            StrVal("Door width 0 mm is below required minimum 900.0 mm")

(***************************************************************************)
(* C7: no combination of absent GlobalId, Name and OverallWidth makes the  *)
(* scan raise; every door gets its record and the summary follows; a door  *)
(* with an absent or empty Name is named "Door #<id>" and a door without   *)
(* GlobalId has element_id None.                                           *)
(***************************************************************************)
C7_NoRaise ==
  /\ pc # "raised"
  /\ pc = "loop" => Len(results) = idx - 1
  /\ pc = "done" =>
       /\ NumDoorRecords = Len(doors)
       /\ Summary.element_type = "Summary"
  /\ pc \in {"loop", "done"} =>
       \A i \in DoorRecordIdx :
         LET r == results[i]
             d == doors[i]
         IN  /\ ~ NamePresent(d) =>
                  r.element_name = "Door #" \o IntToStr(d.id)
             /\ NamePresent(d) => r.element_name = d.Name.s
             /\ (~ NamePresent(d) /\ i = 1) => r.element_name = "Door #25"
             /\ d.GlobalId = Missing => r.element_id = None

C7_Witness ==
  /\ pc = "done"
  /\ Len(doors) >= 2
  /\ doors[1].GlobalId = Missing
  /\ doors[1].Name = Missing
  /\ doors[1].OverallWidth = Missing
  /\ results[1].element_name = "Door #25"
  /\ results[1].element_id = None
  /\ doors[2].Name = StrVal("")
  /\ results[2].element_name = "Door #32"
  /\ Summary.element_type = "Summary"

(***************************************************************************)
(* C8: no step of a call changes the model or the threshold, and a call    *)
(* that follows another on the same model returns an equal list.           *)
(***************************************************************************)
C8_ReadOnly ==
  [][/\ model' = model
     /\ min_width_mm' = min_width_mm
     /\ (pc' = "done" /\ returned' # NoReturn) => results' = returned']_vars

C8_Witness ==
  /\ pc = "done"
  /\ returned # NoReturn
  /\ Len(doors) >= 2
  /\ results = returned
  /\ model.doors = doors

(***************************************************************************)
(* C9: the counts printed in the summary are the counts of the per-door    *)
(* records of the same list: compliant = number of "pass" records, total = *)
(* number of per-door records, non-compliant = number of "fail" records,   *)
(* and compliant + non-compliant = total.                                  *)
(***************************************************************************)
C9_CountsAgree ==
  pc = "done" =>
    LET np == Cardinality(PassRecords)
        nf == Cardinality(FailRecords)
        nt == NumDoorRecords
    IN  /\ Summary.actual_value =
             IntToStr(np) \o " / " \o IntToStr(nt) \o " doors compliant"
        /\ Summary.check_status = "fail" =>
             Summary.comment =
               StrVal(IntToStr(nf) \o " of " \o IntToStr(nt)
                        \o " doors are below the required minimum width of "
                        \o PyStr(min_width_mm) \o " mm or have no width set")
        /\ np + nf = nt
        /\ compliant_count = np
        /\ non_compliant_count = nf
        /\ (np = 1 /\ nt = 2 /\ min_width_mm = FloatVal(900)) =>
             /\ Summary.actual_value = "1 / 2 doors compliant"
             /\ Summary.comment =
                  StrVal("1 of 2 doors are below the required minimum width "
                           \o "of 900.0 mm or have no width set")

C9_Witness ==
  /\ pc = "done"
  /\ Cardinality(FailRecords) = 1
  /\ Summary.actual_value = "0 / 1 doors compliant"
  /\ Summary.check_status = "fail"

(***************************************************************************)
(* C10: the i-th record is the record of the i-th enumerated door, none    *)
(* skipped, duplicated or reordered, and no per-door record is "warning".  *)
(***************************************************************************)
C10_Order ==
  pc \in {"loop", "done"} =>
    /\ NumDoorRecords = (IF pc = "done" THEN Len(doors) ELSE idx - 1)
    /\ \A i \in DoorRecordIdx :
         LET r == results[i]
             d == doors[i]
         IN  /\ r.element_type = "IfcDoor"
             /\ r.element_id = (IF d.GlobalId = Missing THEN None ELSE d.GlobalId)
             /\ r.check_status = (IF WideEnough(d) THEN "pass" ELSE "fail")
             /\ r.check_status # "warning"
             /\ ~ NamePresent(d) => r.element_name = "Door #" \o IntToStr(d.id)

C10_Witness ==
  /\ pc = "done"
  /\ Len(doors) >= 2
  /\ doors[1].GlobalId = Missing
  /\ doors[2].GlobalId # Missing
  /\ results[1].element_id = None
  /\ results[2].element_id = doors[2].GlobalId
  /\ results[1].check_status = "pass"
  /\ results[2].check_status = "fail"

====
